---------------------------- MODULE Spec2Model ----------------------------
(***************************************************************************)
(* MintMemo: the note repository (repo.py), its SQLite schema, triggers   *)
(* and scoped connection (db.py) and the HTTP actions that call them      *)
(* (web.py).                                                               *)
(*                                                                         *)
(* Strings are sequences of characters; a character is a one-character    *)
(* TLA+ string, and the three non-ASCII characters the code names are     *)
(* written "U+FF0C" (full-width comma), "U+3000" (ideographic space) and  *)
(* "U+2026" (ellipsis).                                                    *)
(***************************************************************************)
EXTENDS Integers, Sequences, FiniteSets, TLC

VARIABLES
  db,       \* the committed database: what a new reader sees (WAL)
  work,     \* the uncommitted database image of the connection holding the write lock
  wlock,    \* the connection holding the write lock, or NoProc
  clock,    \* datetime.now(timezone.utc) at second precision
  pc,       \* pc[p]: the statement caller p executes next
  call,     \* call[p]: the operation p is running and its arguments
  loc,      \* loc[p]: the local variables of that operation
  result,   \* result[p]: what the last finished call of p returned or raised
  hist,     \* hist[p]: the note values committed since p's read began
  pre,      \* pre[p]: the committed database when p's call began
  raw,      \* input of parse_tags
  parsed    \* output of parse_tags, once applied

vars == <<db, work, wlock, clock, pc, call, loc, result, hist, pre, raw, parsed>>

----------------------------------------------------------------------------
(* Bounds *)

MaxPieces == 4     \* a raw tag string is made of at most this many pieces
MaxNotes == 2      \* note ids handed out by AUTOINCREMENT
MaxClock == 1      \* seconds the clock can advance

(* Program constants *)

MaxTagLen == 32         \* repo.py: len(t) > 32, t[:32]
ListExcerptLen == 160   \* repo.py list_notes
SearchExcerptLen == 180 \* repo.py search_notes

----------------------------------------------------------------------------
(* Characters and Python string methods *)

UpperChars == <<"A","B","C","D","E","F","G","H","I","J","K","L","M",
                "N","O","P","Q","R","S","T","U","V","W","X","Y","Z">>
LowerChars == <<"a","b","c","d","e","f","g","h","i","j","k","l","m",
                "n","o","p","q","r","s","t","u","v","w","x","y","z">>

\* code-point order of the characters the model uses
Alphabet == <<"\n", " ", ",", ".">> \o UpperChars \o LowerChars
              \o <<"U+2026", "U+3000", "U+FF0C">>

Ord(c) == CHOOSE i \in 1..Len(Alphabet) : Alphabet[i] = c

\* str.isspace characters stripped by str.strip()
Whitespace == {" ", "\n", "U+3000"}

Range(s) == {s[i] : i \in 1..Len(s)}

\* str.lower(), one character
Lower(c) ==
  IF \E i \in 1..26 : UpperChars[i] = c
    THEN LowerChars[CHOOSE i \in 1..26 : UpperChars[i] = c]
    ELSE c

\* str.lower()
LowerStr(s) == [i \in 1..Len(s) |-> Lower(s[i])]

RECURSIVE LStrip(_)
LStrip(s) ==
  IF s # <<>> /\ Head(s) \in Whitespace THEN LStrip(Tail(s)) ELSE s

RECURSIVE RStrip(_)
RStrip(s) ==
  IF s # <<>> /\ s[Len(s)] \in Whitespace
    THEN RStrip(SubSeq(s, 1, Len(s) - 1))
    ELSE s

\* str.strip()
Strip(s) == RStrip(LStrip(s))

\* str.replace(a, b) for one-character a and b
Replace(s, a, b) == [i \in 1..Len(s) |-> IF s[i] = a THEN b ELSE s[i]]

\* str.split(sep): one more item than there are separators
RECURSIVE Split(_, _)
Split(s, sep) ==
  IF \E i \in 1..Len(s) : s[i] = sep
    THEN LET i == CHOOSE k \in 1..Len(s) :
                    s[k] = sep /\ \A j \in 1..(k - 1) : s[j] # sep
         IN  <<SubSeq(s, 1, i - 1)>> \o Split(SubSeq(s, i + 1, Len(s)), sep)
    ELSE <<s>>

\* s[:n]
Prefix(s, n) == IF Len(s) > n THEN SubSeq(s, 1, n) ELSE s

\* lexicographic order by code point (Python str comparison, SQLite BINARY)
RECURSIVE StrLess(_, _)
StrLess(a, b) ==
  IF b = <<>> THEN FALSE
  ELSE IF a = <<>> THEN TRUE
  ELSE IF Head(a) = Head(b) THEN StrLess(Tail(a), Tail(b))
  ELSE Ord(Head(a)) < Ord(Head(b))

----------------------------------------------------------------------------
(* repo.py: parse_tags *)

\* the for loop of parse_tags: skip empty, truncate, keep first occurrences
RECURSIVE parse_tags_loop(_, _, _)
parse_tags_loop(items, dedup, seen) ==
  IF items = <<>> THEN dedup
  ELSE LET t0 == Head(items)
           t  == IF Len(t0) > MaxTagLen THEN SubSeq(t0, 1, MaxTagLen) ELSE t0
       IN  IF t0 = <<>> THEN parse_tags_loop(Tail(items), dedup, seen)
           ELSE IF t \notin seen
             THEN parse_tags_loop(Tail(items), Append(dedup, t), seen \cup {t})
             ELSE parse_tags_loop(Tail(items), dedup, seen)

\* a slip: the loop appends every non-empty item, seen or not
RECURSIVE parse_tags_loop_nodedup(_)
parse_tags_loop_nodedup(items) ==
  IF items = <<>> THEN <<>>
  ELSE LET t0 == Head(items)
       IN  IF t0 = <<>> THEN parse_tags_loop_nodedup(Tail(items))
           ELSE <<Prefix(t0, MaxTagLen)>> \o parse_tags_loop_nodedup(Tail(items))

parse_tags_nodedup(r) ==
  IF r = <<>> THEN <<>>
  ELSE LET parts == Split(Replace(r, "U+FF0C", ","), ",")
       IN  parse_tags_loop_nodedup(
             [i \in 1..Len(parts) |-> LowerStr(Strip(parts[i]))])

\* a slip: the items are not cut to 32 characters
parse_tags_notrunc(r) ==
  IF r = <<>> THEN <<>>
  ELSE LET parts == Split(Replace(r, "U+FF0C", ","), ",")
           items == [i \in 1..Len(parts) |-> LowerStr(Strip(parts[i]))]
           RECURSIVE loop(_, _)
           loop(todo, dedup) ==
             IF todo = <<>> THEN dedup
             ELSE IF Head(todo) = <<>> \/ Head(todo) \in Range(dedup)
               THEN loop(Tail(todo), dedup)
               ELSE loop(Tail(todo), Append(dedup, Head(todo)))
       IN  loop(items, <<>>)

parse_tags(r) ==
  IF r = <<>> THEN <<>>
  ELSE LET parts == Split(Replace(r, "U+FF0C", ","), ",")
           items == [i \in 1..Len(parts) |-> LowerStr(Strip(parts[i]))]
       IN  parse_tags_loop(items, <<>>, {})

----------------------------------------------------------------------------
(* Inputs of parse_tags: concatenations of at most MaxPieces pieces *)

Run(c, n) == [i \in 1..n |-> c]

Pieces == { <<",">>, <<"U+FF0C">>, <<" ">>, <<"a">>, <<"B">>,
            Run("x", MaxTagLen - 1), Run("x", MaxTagLen) }

RECURSIVE Concat(_)
Concat(ss) == IF ss = <<>> THEN <<>> ELSE Head(ss) \o Concat(Tail(ss))

RawInputs ==
  UNION { { Concat(ps) : ps \in [1..n -> Pieces] } : n \in 0..MaxPieces }


----------------------------------------------------------------------------
(* The database: db.py SCHEMA_SQL *)

\* Tables are functions from primary key to row; note_tags and notes_fts are
\* multisets (a function from row to its number of copies), so that a
\* duplicate row is a state the model can express.

\* a database file that sqlite3.connect has just created
NewFile ==
  [ notes     |-> <<>>,   \* id -> [title, content, pinned, created_at, updated_at]
    tags      |-> <<>>,   \* id -> name
    note_tags |-> <<>>,   \* <<note_id, tag_id>> -> copies
    fts       |-> <<>>,   \* [rowid, title, content] -> copies
    seq_notes |-> 0,      \* sqlite_sequence of notes (AUTOINCREMENT)
    seq_tags  |-> 0,      \* sqlite_sequence of tags
    schema    |-> <<>> ]  \* the catalog: [type, name] in order of creation

\* The two PRAGMAs of the script set connection and file modes that are no
\* part of the stored state.

\* the CREATE statements of SCHEMA_SQL, in the order of the script
SCHEMA_SQL ==
  << [type |-> "table",   name |-> "notes"],
     [type |-> "table",   name |-> "tags"],
     [type |-> "table",   name |-> "note_tags"],
     [type |-> "table",   name |-> "notes_fts"],
     [type |-> "trigger", name |-> "notes_ai"],
     [type |-> "trigger", name |-> "notes_ad"],
     [type |-> "trigger", name |-> "notes_au"] >>

\* an object of that name is in the catalog (sqlite_master) of S
InCatalog(S, name) == \E i \in 1..Len(S.schema) : S.schema[i].name = name

\* a slip: CREATE without IF NOT EXISTS, which fails on an object that is there
CreatePlain(S, obj) ==
  IF InCatalog(S, obj.name)
    THEN [db |-> S, err |-> "OperationalError"]
    ELSE [db |-> [S EXCEPT !.schema = Append(@, obj)], err |-> "none"]

\* CREATE ... IF NOT EXISTS: nothing is done when the name is in the catalog
CreateIfNotExists(S, obj) ==
  IF InCatalog(S, obj.name)
    THEN [db |-> S, err |-> "none"]
    ELSE [db |-> [S EXCEPT !.schema = Append(@, obj)], err |-> "none"]

\* conn.executescript: the statements in turn, up to the first that fails
RECURSIVE executescript(_, _)
executescript(S, script) ==
  IF script = <<>> THEN [db |-> S, err |-> "none", value |-> <<>>]
  ELSE LET r == CreateIfNotExists(S, Head(script))
       IN  IF r.err # "none"
             THEN [db |-> r.db, err |-> r.err, value |-> <<>>]
             ELSE executescript(r.db, Tail(script))

init_db(S) == executescript(S, SCHEMA_SQL)

\* the database after init_db on a new file
EmptyDb == init_db(NewFile).db

Procs == {"c1", "c2"}
NoProc == "none"

NoCall ==
  [ op |-> "none", id |-> 0, title |-> <<>>, content |-> <<>>, tags |-> <<>>,
    tag |-> <<>>, query |-> <<>>, limit |-> 0, now |-> 0, web |-> FALSE ]

NoLoc == [ nid |-> 0, todo |-> <<>>, rows |-> <<>>, out |-> <<>>, err |-> "none" ]

NoResult == [ kind |-> "none", value |-> <<>> ]

NotParsed == [ done |-> FALSE, out |-> <<>> ]

\* the state after create_app's startup has run init_db on a new file
InitStore ==
  /\ db = EmptyDb
  /\ work = EmptyDb
  /\ wlock = NoProc
  /\ clock = 0
  /\ pc = [p \in Procs |-> "idle"]
  /\ call = [p \in Procs |-> NoCall]
  /\ loc = [p \in Procs |-> NoLoc]
  /\ result = [p \in Procs |-> NoResult]
  /\ hist = [p \in Procs |-> {}]
  /\ pre = [p \in Procs |-> EmptyDb]

storeVars == <<db, work, wlock, clock, pc, call, loc, result, hist, pre>>

----------------------------------------------------------------------------
(* Rows and multisets *)

Without(f, k) == [x \in DOMAIN f \ {k} |-> f[x]]

BagAdd(b, e) ==
  IF e \in DOMAIN b THEN [b EXCEPT ![e] = @ + 1] ELSE b @@ (e :> 1)

BagRemove(b, e) ==
  IF e \notin DOMAIN b THEN b
  ELSE IF b[e] > 1 THEN [b EXCEPT ![e] = @ - 1]
  ELSE Without(b, e)

Untitled == <<"U","n","t","i","t","l","e","d">>

----------------------------------------------------------------------------
(* db.py: the triggers that mirror notes into notes_fts *)

FtsEntry(id, row) ==
  [rowid |-> id, title |-> row.title, content |-> row.content]

\* AFTER INSERT ON notes
notes_ai(S, id, new) == [S EXCEPT !.fts = BagAdd(@, FtsEntry(id, new))]

\* AFTER DELETE ON notes
notes_ad(S, id, old) == [S EXCEPT !.fts = BagRemove(@, FtsEntry(id, old))]

\* a slip: the update trigger without its 'delete' of the old entry
notes_au_keeps_old(S, id, old, new) ==
  [S EXCEPT !.fts = BagAdd(@, FtsEntry(id, new))]

\* AFTER UPDATE ON notes: 'delete' the old entry, insert the new one
notes_au(S, id, old, new) ==
  [S EXCEPT !.fts = BagAdd(BagRemove(@, FtsEntry(id, old)), FtsEntry(id, new))]

----------------------------------------------------------------------------
(* repo.py: the statements of the mutating operations, on a database S *)

\* a slip: the title is stored without strip()
StoredTitleUnstripped(title) ==
  IF title # <<>> THEN title ELSE Untitled

\* title.strip() or "Untitled"
StoredTitle(title) ==
  IF Strip(title) # <<>> THEN Strip(title) ELSE Untitled

\* a slip: the notes table without AUTOINCREMENT, where the id is one more
\* than the largest rowid now stored
InsertNoteMaxRowid(S, title, content, now) ==
  LET id  == IF DOMAIN S.notes = {} THEN 1
             ELSE (CHOOSE m \in DOMAIN S.notes :
                     \A k \in DOMAIN S.notes : k <= m) + 1
      row == [ title |-> StoredTitle(title), content |-> content,
               pinned |-> FALSE, created_at |-> now, updated_at |-> now ]
  IN  notes_ai([S EXCEPT !.notes = @ @@ (id :> row), !.seq_notes = @ + 1],
               id, row)

\* create_note: INSERT INTO notes ...; the id is cur.lastrowid
InsertNote(S, title, content, now) ==
  LET id  == S.seq_notes + 1
      row == [ title |-> StoredTitle(title), content |-> content,
               pinned |-> FALSE, created_at |-> now, updated_at |-> now ]
  IN  notes_ai([S EXCEPT !.notes = @ @@ (id :> row), !.seq_notes = id], id, row)

\* an UPDATE of the row with that id, if there is one, and its trigger
UpdateRow(S, id, new) ==
  IF id \in DOMAIN S.notes
    THEN notes_au([S EXCEPT !.notes[id] = new], id, S.notes[id], new)
    ELSE S

\* a slip: the UPDATE of update_note stamps created_at in place of updated_at
UpdateNoteStampsCreated(S, id, title, content, now) ==
  IF id \in DOMAIN S.notes
    THEN UpdateRow(S, id, [S.notes[id] EXCEPT !.title = StoredTitle(title),
                                              !.content = content,
                                              !.created_at = now])
    ELSE S

\* update_note: UPDATE notes SET title = ?, content = ?, updated_at = ? WHERE id = ?
UpdateNote(S, id, title, content, now) ==
  IF id \in DOMAIN S.notes
    THEN UpdateRow(S, id, [S.notes[id] EXCEPT !.title = StoredTitle(title),
                                              !.content = content,
                                              !.updated_at = now])
    ELSE S

\* a slip: UPDATE notes SET pinned = 1, which pins and never unpins
FlipPinnedSetsOne(S, id) ==
  IF id \in DOMAIN S.notes
    THEN UpdateRow(S, id, [S.notes[id] EXCEPT !.pinned = TRUE])
    ELSE S

\* toggle_pin: UPDATE notes SET pinned = CASE pinned WHEN 1 THEN 0 ELSE 1 END WHERE id = ?
FlipPinned(S, id) ==
  IF id \in DOMAIN S.notes
    THEN UpdateRow(S, id, [S.notes[id] EXCEPT !.pinned = ~@])
    ELSE S

\* a slip: the second UPDATE of toggle_pin without its WHERE clause
StampUpdatedAllRows(S, id, now) ==
  [S EXCEPT !.notes = [i \in DOMAIN S.notes |->
                         [S.notes[i] EXCEPT !.updated_at = now]]]

\* a slip: toggle_pin without its second UPDATE
StampUpdatedSkipped(S, id, now) == S

\* toggle_pin: UPDATE notes SET updated_at = ? WHERE id = ?
StampUpdated(S, id, now) ==
  IF id \in DOMAIN S.notes
    THEN UpdateRow(S, id, [S.notes[id] EXCEPT !.updated_at = now])
    ELSE S

\* a slip: the tag associations of the note are not deleted first
DeleteNoteTagsSkipped(S, nid) == S

\* a slip: DELETE FROM note_tags without its WHERE clause
DeleteNoteTagsAll(S, nid) == [S EXCEPT !.note_tags = <<>>]

\* _set_note_tags: DELETE FROM note_tags WHERE note_id = ?
DeleteNoteTags(S, nid) ==
  [S EXCEPT !.note_tags =
     [pr \in {q \in DOMAIN S.note_tags : q[1] # nid} |-> S.note_tags[pr]]]

\* a slip: the connection without PRAGMA foreign_keys = ON, so that
\* ON DELETE CASCADE does not run
DeleteNoteForeignKeysOff(S, id) ==
  IF id \in DOMAIN S.notes
    THEN notes_ad([S EXCEPT !.notes = Without(@, id)], id, S.notes[id])
    ELSE S

\* delete_note: DELETE FROM notes WHERE id = ?, with ON DELETE CASCADE of
\* note_tags and the delete trigger
DeleteNote(S, id) ==
  IF id \in DOMAIN S.notes
    THEN notes_ad(DeleteNoteTags([S EXCEPT !.notes = Without(@, id)], id),
                  id, S.notes[id])
    ELSE S

\* a slip: the tags table without UNIQUE(name), a plain INSERT
InsertTagAlways(S, name) ==
  [S EXCEPT !.tags = @ @@ ((S.seq_tags + 1) :> name), !.seq_tags = @ + 1]

\* _ensure_tag: INSERT OR IGNORE INTO tags(name), name being UNIQUE
InsertTagOrIgnore(S, name) ==
  IF \E t \in DOMAIN S.tags : S.tags[t] = name
    THEN S
    ELSE [S EXCEPT !.tags = @ @@ ((S.seq_tags + 1) :> name), !.seq_tags = @ + 1]

\* _ensure_tag: SELECT id FROM tags WHERE name = ?, fetchone
SelectTagId(S, name) ==
  CHOOSE t \in DOMAIN S.tags :
    /\ S.tags[t] = name
    /\ \A u \in DOMAIN S.tags : S.tags[u] = name => t <= u

\* the FOREIGN KEY constraints of note_tags (PRAGMA foreign_keys = ON)
ForeignKeysHold(S, nid, tid) == nid \in DOMAIN S.notes /\ tid \in DOMAIN S.tags

\* _set_note_tags: INSERT OR IGNORE INTO note_tags, (note_id, tag_id) being
\* the PRIMARY KEY
InsertNoteTagOrIgnore(S, nid, tid) ==
  IF <<nid, tid>> \in DOMAIN S.note_tags
    THEN S
    ELSE [S EXCEPT !.note_tags = BagAdd(@, <<nid, tid>>)]

----------------------------------------------------------------------------
(* repo.py: the queries *)

\* _get_tags_for_note: the names joined to the note, ORDER BY t.name
RECURSIVE SortedNames(_, _)
SortedNames(S, prs) ==
  IF prs = {} THEN <<>>
  ELSE LET m == CHOOSE x \in prs : \A y \in prs :
                  /\ ~StrLess(S.tags[y[2]], S.tags[x[2]])
                  /\ S.tags[y[2]] = S.tags[x[2]] => x[2] <= y[2]
       IN  Run(S.tags[m[2]], S.note_tags[m]) \o SortedNames(S, prs \ {m})

get_tags_for_note(S, nid) ==
  SortedNames(S, {pr \in DOMAIN S.note_tags :
                    pr[1] = nid /\ pr[2] \in DOMAIN S.tags})

\* the columns id, title, content, pinned, created_at, updated_at of a note
NoteRow(S, id) ==
  [ id |-> id, title |-> S.notes[id].title, content |-> S.notes[id].content,
    pinned |-> S.notes[id].pinned, created_at |-> S.notes[id].created_at,
    updated_at |-> S.notes[id].updated_at ]

\* get_note and export_all: the dict built from a row and its tags
NoteDict(row, tags) ==
  [ id |-> row.id, title |-> row.title, content |-> row.content,
    pinned |-> row.pinned, created_at |-> row.created_at,
    updated_at |-> row.updated_at, tags |-> tags ]

\* content.strip().replace("\n", " "), cut to n characters and an ellipsis
Excerpt(content, n) ==
  LET e == Replace(Strip(content), "\n", " ")
  IN  IF Len(e) > n THEN Append(SubSeq(e, 1, n), "U+2026") ELSE e

\* list_notes and search_notes: the dict built from a row and its tags
SummaryDict(row, tags, n) ==
  [ id |-> row.id, title |-> row.title, excerpt |-> Excerpt(row.content, n),
    pinned |-> row.pinned, created_at |-> row.created_at,
    updated_at |-> row.updated_at, tags |-> tags ]

\* the value of every stored note as get_note reports it
NoteValues(S) ==
  {NoteDict(NoteRow(S, id), get_tags_for_note(S, id)) : id \in DOMAIN S.notes}

----------------------------------------------------------------------------
(* repo.py: list_notes, search_notes, export_all, list_tags: the rows *)

Min(a, b) == IF a < b THEN a ELSE b

BagSize(M) ==
  LET RECURSIVE Sum(_)
      Sum(D) == IF D = {} THEN 0
                ELSE LET x == CHOOSE y \in D : TRUE IN M[x] + Sum(D \ {x})
  IN  Sum(DOMAIN M)

\* LIMIT ?
Limited(rows, limit) == SubSeq(rows, 1, Min(limit, Len(rows)))

\* a slip: ORDER BY updated_at DESC alone, as export_all has it
ListBeforeUpdatedOnly(a, b) == a.updated_at > b.updated_at

\* ORDER BY pinned DESC, updated_at DESC
ListBefore(a, b) ==
  \/ a.pinned /\ ~b.pinned
  \/ a.pinned = b.pinned /\ a.updated_at > b.updated_at

\* ORDER BY updated_at DESC
ExportBefore(a, b) == a.updated_at > b.updated_at

\* bm25 is not modelled: ORDER BY rank may give any order
RankBefore(a, b) == FALSE

\* ORDER BY cnt DESC, name ASC
TagsBefore(a, b) ==
  \/ a.count > b.count
  \/ a.count = b.count /\ StrLess(a.name, b.name)

\* the ORDER BY clause of each query
Before(order, a, b) ==
  CASE order = "list"   -> ListBefore(a, b)
    [] order = "export" -> ExportBefore(a, b)
    [] order = "rank"   -> RankBefore(a, b)
    [] order = "tags"   -> TagsBefore(a, b)

\* every order of the rows of multiset M that ORDER BY allows: no row after
\* one it must precede. SQL leaves the order of ties open.
OrderedRows(M, order) ==
  { s \in [1..BagSize(M) -> DOMAIN M] :
      /\ \A x \in DOMAIN M : Cardinality({i \in 1..BagSize(M) : s[i] = x}) = M[x]
      /\ \A i, j \in 1..BagSize(M) : i < j => ~Before(order, s[j], s[i]) }

\* the multiset of the rows r[x], x in the multiset M
BagMap(M, r) ==
  LET image == {r[x] : x \in DOMAIN M}
      RECURSIVE Copies(_, _)
      Copies(D, y) ==
        IF D = {} THEN 0
        ELSE LET x == CHOOSE z \in D : TRUE
             IN  (IF r[x] = y THEN M[x] ELSE 0) + Copies(D \ {x}, y)
  IN  [y \in image |-> Copies(DOMAIN M, y)]

\* list_notes without tag: SELECT ... FROM notes
AllNoteRows(S) == [row \in {NoteRow(S, id) : id \in DOMAIN S.notes} |-> 1]

\* list_notes with tag: notes JOIN note_tags JOIN tags WHERE t.name = ?
TaggedNoteRows(S, name) ==
  LET prs == {pr \in DOMAIN S.note_tags :
                /\ pr[1] \in DOMAIN S.notes
                /\ pr[2] \in DOMAIN S.tags
                /\ S.tags[pr[2]] = name}
      row == [pr \in prs |-> NoteRow(S, pr[1])]
  IN  BagMap([pr \in prs |-> S.note_tags[pr]], row)

\* Python's None as the tag argument: a value that is no string of the model
None == <<"None">>

\* list_notes: `if tag:` holds of every string but the empty one, and not of
\* None
Truthy(tag) == tag # None /\ tag # <<>>

\* list_notes: the rows fetched, in each order the query may give them
list_notes_rows(S, tag, limit) ==
  IF Truthy(tag)
    THEN {Limited(s, limit) :
            s \in OrderedRows(TaggedNoteRows(S, LowerStr(tag)), "list")}
    ELSE {Limited(s, limit) : s \in OrderedRows(AllNoteRows(S), "list")}

\* export_all: the rows fetched
export_all_rows(S) == OrderedRows(AllNoteRows(S), "export")

\* list_tags: GROUP BY t.id with COUNT(nt.note_id) over the LEFT JOIN
TagCount(S, tid) ==
  BagSize([pr \in {q \in DOMAIN S.note_tags : q[2] = tid} |-> S.note_tags[pr]])

\* a slip: JOIN in place of LEFT JOIN, which drops the tags of no note
list_tags_inner_join(S) ==
  LET used == {tid \in DOMAIN S.tags : TagCount(S, tid) > 0}
      row  == [tid \in used |->
                 [name |-> S.tags[tid], count |-> TagCount(S, tid)]]
  IN  OrderedRows(BagMap([tid \in used |-> 1], row), "tags")

list_tags(S) ==
  LET row == [tid \in DOMAIN S.tags |->
                [name |-> S.tags[tid], count |-> TagCount(S, tid)]]
  IN  OrderedRows(BagMap([tid \in DOMAIN S.tags |-> 1], row), "tags")

----------------------------------------------------------------------------
(* Full-text search: the fts5 table of db.py and search_notes of repo.py *)

IsAlnum(c) == Lower(c) \in Range(LowerChars)

\* tokenize='unicode61': the maximal runs of letters, case folded
Tokens(text) ==
  { LowerStr(SubSeq(text, i, j)) :
      <<i, j>> \in { ij \in (1..Len(text)) \X (1..Len(text)) :
        /\ ij[1] <= ij[2]
        /\ \A k \in ij[1]..ij[2] : IsAlnum(text[k])
        /\ ij[1] = 1 \/ ~IsAlnum(text[ij[1] - 1])
        /\ ij[2] = Len(text) \/ ~IsAlnum(text[ij[2] + 1]) } }

NonEmpty(ss) == SelectSeq(ss, LAMBDA t : t # <<>>)

\* tokens = [t for t in q.replace(U+3000, " ").split(" ") if t]
QueryTokens(q) == NonEmpty(Split(Replace(q, "U+3000", " "), " "))

\* " AND ".join(tokens)
RECURSIVE JoinAnd(_)
JoinAnd(tokens) ==
  IF Len(tokens) <= 1 THEN Concat(tokens)
  ELSE Head(tokens) \o <<" ", "A", "N", "D", " ">> \o JoinAnd(Tail(tokens))

Fts5Operators == { <<"A","N","D">>, <<"O","R">>, <<"N","O","T">> }

\* the fts5 query parser on the words of a MATCH string: a word is an
\* operator or a bareword of letters; operators stand between two terms
Fts5Parses(match) ==
  LET w == NonEmpty(Split(match, " "))
  IN  /\ w # <<>>
      /\ w[1] \notin Fts5Operators
      /\ w[Len(w)] \notin Fts5Operators
      /\ \A i \in 1..(Len(w) - 1) :
           ~(w[i] \in Fts5Operators /\ w[i + 1] \in Fts5Operators)
      /\ \A i \in 1..Len(w) :
           w[i] \notin Fts5Operators => \A k \in 1..Len(w[i]) : IsAlnum(w[i][k])

\* the terms of a MATCH string that parses (all joined by AND)
Fts5Terms(match) ==
  LET w == NonEmpty(Split(match, " "))
  IN  {LowerStr(w[i]) : i \in {k \in 1..Len(w) : w[k] \notin Fts5Operators}}

\* notes_fts JOIN notes WHERE notes_fts MATCH ?
MatchingRows(S, match) ==
  LET es == {e \in DOMAIN S.fts :
               /\ e.rowid \in DOMAIN S.notes
               /\ Fts5Parses(match)
               /\ Fts5Terms(match) \subseteq (Tokens(e.title) \cup Tokens(e.content))}
      row == [e \in es |-> NoteRow(S, e.rowid)]
  IN  BagMap([e \in es |-> S.fts[e]], row)

\* search_notes: the rows fetched, in each order the query may give them
search_notes_rows(S, match, limit) ==
  {Limited(s, limit) : s \in OrderedRows(MatchingRows(S, match), "rank")}

----------------------------------------------------------------------------
(* repo.py: the operations, each the composition of its statements.        *)
(* An operation gives [db, err, value]: the database image it leaves in    *)
(* its connection, the exception it raised ("none" if none) and what it    *)
(* returned.                                                               *)

\* _set_note_tags: one turn of the loop: _ensure_tag(conn, name), then
\* INSERT OR IGNORE INTO note_tags, which the foreign keys may refuse
\* (IntegrityError: only the refused INSERT is undone)
set_tag_turn(S, nid, name) ==
  LET S1  == InsertTagOrIgnore(S, name)
      tid == SelectTagId(S1, name)
  IN  IF ForeignKeysHold(S1, nid, tid)
        THEN [db |-> InsertNoteTagOrIgnore(S1, nid, tid), err |-> "none"]
        ELSE [db |-> S1, err |-> "IntegrityError"]

RECURSIVE set_tags_loop(_, _, _)
set_tags_loop(S, nid, todo) ==
  IF todo = <<>> THEN [db |-> S, err |-> "none"]
  ELSE LET r == set_tag_turn(S, nid, Head(todo))
       IN  IF r.err # "none" THEN r ELSE set_tags_loop(r.db, nid, Tail(todo))

set_note_tags(S, nid, tags) == set_tags_loop(DeleteNoteTags(S, nid), nid, tags)

create_note(S, title, content, tags, now) ==
  LET r == set_note_tags(InsertNote(S, title, content, now), S.seq_notes + 1, tags)
  IN  [db |-> r.db, err |-> r.err, value |-> <<S.seq_notes + 1>>]

update_note(S, id, title, content, tags, now) ==
  LET r == set_note_tags(UpdateNote(S, id, title, content, now), id, tags)
  IN  [db |-> r.db, err |-> r.err, value |-> <<>>]

delete_note(S, id) == [db |-> DeleteNote(S, id), err |-> "none", value |-> <<>>]

toggle_pin(S, id, now) ==
  [db |-> StampUpdated(FlipPinned(S, id), id, now), err |-> "none", value |-> <<>>]

\* get_note: None is <<>>, a dict d is <<d>>
get_note(S, id) ==
  IF id \in DOMAIN S.notes
    THEN <<NoteDict(NoteRow(S, id), get_tags_for_note(S, id))>>
    ELSE <<>>

\* the dict a reading operation appends for a row and its tags
ItemOf(op, row, tags) ==
  IF op = "list" THEN SummaryDict(row, tags, ListExcerptLen)
  ELSE IF op = "search" THEN SummaryDict(row, tags, SearchExcerptLen)
  ELSE NoteDict(row, tags)

\* the loop over the fetched rows, all read from the one database S
ItemsOf(op, S, rows) ==
  [i \in 1..Len(rows) |-> ItemOf(op, rows[i], get_tags_for_note(S, rows[i].id))]

\* list_notes: every list the call may return
list_notes(S, tag, limit) ==
  {ItemsOf("list", S, rows) : rows \in list_notes_rows(S, tag, limit)}

\* the MATCH string search_notes builds
MatchOf(query) == JoinAnd(QueryTokens(Strip(query)))

\* search_notes raises when fts5 cannot parse its MATCH string
search_notes_err(query) ==
  IF Strip(query) # <<>> /\ ~Fts5Parses(MatchOf(query))
    THEN "OperationalError" ELSE "none"

\* search_notes: every list the call may return when it does not raise
search_notes(S, query, limit) ==
  IF Strip(query) = <<>> THEN {<<>>}
  ELSE {ItemsOf("search", S, rows) :
          rows \in search_notes_rows(S, MatchOf(query), limit)}

\* export_all: every list the call may return
export_all(S) == {ItemsOf("export", S, rows) : rows \in export_all_rows(S)}

----------------------------------------------------------------------------
(* db.py connect: commit when the body ends, rollback when it raises *)

\* conn.commit(): the image becomes the committed database
ConnectCommit(committed, image) == image

\* a slip: on an exception the connection commits what was written
ConnectRollbackCommits(committed, image) == image

\* conn.rollback(): the committed database stays
ConnectRollback(committed, image) == committed

\* the committed database after `with connect(...)` around an operation r
connect(committed, r) ==
  IF r.err = "none"
    THEN ConnectCommit(committed, r.db)
    ELSE ConnectRollback(committed, r.db)

----------------------------------------------------------------------------
(* One caller at a time: each call is one step, the caller then returns *)

ReadOps == {"get", "list", "search", "export", "list_tags"}

\* AUTOINCREMENT is capped: no more than MaxNotes ids are handed out
MayCreate ==
  db.seq_notes
    + Cardinality({q \in Procs : pc[q] \notin {"idle", "done"}
                                   /\ call[q].op = "create"})
    < MaxNotes

\* p ran the call c in a scoped connection: it left the database newdb and
\* returned value, or raised err
Finish(p, c, newdb, err, value) ==
  /\ pc[p] = "idle"
  /\ wlock = NoProc
  /\ pc' = [pc EXCEPT ![p] = "done"]
  /\ call' = [call EXCEPT ![p] = c]
  /\ result' = [result EXCEPT ![p] =
                  [kind |-> IF err = "none" THEN "ok" ELSE err,
                   value |-> IF err = "none" THEN value ELSE <<>>]]
  /\ pre' = [pre EXCEPT ![p] = db]
  /\ db' = newdb
  /\ work' = newdb
  /\ UNCHANGED <<wlock, clock, loc, hist, raw, parsed>>

\* a mutating operation r run under connect
FinishWrite(p, c, r) == Finish(p, c, connect(db, r), r.err, r.value)

\* a reading operation that returned value
FinishRead(p, c, value) == Finish(p, c, db, "none", value)

DoCreate(p, In) ==
  \E title \in In.titles, content \in In.contents, tags \in In.taglists :
    /\ MayCreate
    /\ FinishWrite(p, [NoCall EXCEPT !.op = "create", !.title = title,
                         !.content = content, !.tags = tags, !.now = clock],
                   create_note(db, title, content, tags, clock))

DoUpdate(p, In) ==
  \E id \in In.ids, title \in In.titles, content \in In.contents,
     tags \in In.taglists :
    FinishWrite(p, [NoCall EXCEPT !.op = "update", !.id = id, !.title = title,
                      !.content = content, !.tags = tags, !.now = clock],
                update_note(db, id, title, content, tags, clock))

DoDelete(p, In) ==
  \E id \in In.ids :
    FinishWrite(p, [NoCall EXCEPT !.op = "delete", !.id = id],
                delete_note(db, id))

DoTogglePin(p, In) ==
  \E id \in In.ids :
    FinishWrite(p, [NoCall EXCEPT !.op = "toggle_pin", !.id = id, !.now = clock],
                toggle_pin(db, id, clock))

DoGet(p, In) ==
  \E id \in In.ids :
    FinishRead(p, [NoCall EXCEPT !.op = "get", !.id = id], get_note(db, id))

DoList(p, In) ==
  \E tag \in In.tagfilters, limit \in In.limits :
    \E items \in list_notes(db, tag, limit) :
      FinishRead(p, [NoCall EXCEPT !.op = "list", !.tag = tag, !.limit = limit],
                 items)

DoSearch(p, In) ==
  \E query \in In.queries, limit \in In.limits :
    LET c == [NoCall EXCEPT !.op = "search", !.query = query, !.limit = limit]
    IN  IF search_notes_err(query) # "none"
          THEN Finish(p, c, db, search_notes_err(query), <<>>)
          ELSE \E items \in search_notes(db, query, limit) :
                 FinishRead(p, c, items)

DoExport(p, In) ==
  \E items \in export_all(db) :
    FinishRead(p, [NoCall EXCEPT !.op = "export"], items)

DoListTags(p, In) ==
  \E rows \in list_tags(db) :
    FinishRead(p, [NoCall EXCEPT !.op = "list_tags"], rows)

\* web.py create_note_action: tag_list = parse_tags(tags), then create_note
DoCreateAction(p, In) ==
  \E title \in In.titles, content \in In.contents, rawtags \in In.rawtags :
    /\ MayCreate
    /\ FinishWrite(p, [NoCall EXCEPT !.op = "create", !.title = title,
                         !.content = content, !.tags = parse_tags(rawtags),
                         !.now = clock, !.web = TRUE],
                   create_note(db, title, content, parse_tags(rawtags), clock))

\* web.py update_note_action: tag_list = parse_tags(tags); 404 when
\* get_note finds nothing, update_note otherwise
DoUpdateAction(p, In) ==
  \E id \in In.ids, title \in In.titles, content \in In.contents,
     rawtags \in In.rawtags :
    LET c == [NoCall EXCEPT !.op = "update", !.id = id, !.title = title,
                !.content = content, !.tags = parse_tags(rawtags),
                !.now = clock, !.web = TRUE]
    IN  IF get_note(db, id) = <<>>
          THEN Finish(p, c, db, "HTTPException", <<>>)
          ELSE FinishWrite(p, c, update_note(db, id, title, content,
                                             parse_tags(rawtags), clock))

\* web.py pin_note_action: toggle_pin, then get_note in the same
\* connection; 404 after the commit when the note is not there
DoPinAction(p, In) ==
  \E id \in In.ids :
    LET c == [NoCall EXCEPT !.op = "toggle_pin", !.id = id, !.now = clock,
                            !.web = TRUE]
        r == toggle_pin(db, id, clock)
    IN  IF get_note(r.db, id) = <<>>
          THEN Finish(p, c, connect(db, r), "HTTPException", <<>>)
          ELSE Finish(p, c, connect(db, r), "none", get_note(r.db, id))

\* web.py _startup of a restarted process: init_db in a scoped connection.
\* executescript runs outside any transaction, so each statement is
\* committed as it runs
DoInitDb(p) ==
  LET r == init_db(db)
  IN  Finish(p, [NoCall EXCEPT !.op = "init_db"], r.db, r.err, r.value)

\* the caller has its answer and is ready for the next call
Return(p) ==
  /\ pc[p] = "done"
  /\ pc' = [pc EXCEPT ![p] = "idle"]
  /\ call' = [call EXCEPT ![p] = NoCall]
  /\ loc' = [loc EXCEPT ![p] = NoLoc]
  /\ result' = [result EXCEPT ![p] = NoResult]
  /\ hist' = [hist EXCEPT ![p] = {}]
  /\ pre' = [pre EXCEPT ![p] = EmptyDb]
  /\ UNCHANGED <<db, work, wlock, clock, raw, parsed>>

\* a second passes
Tick ==
  /\ clock < MaxClock
  /\ clock' = clock + 1
  /\ UNCHANGED <<db, work, wlock, pc, call, loc, result, hist, pre, raw, parsed>>

----------------------------------------------------------------------------
(* Inputs *)

TagA == <<"a">>
TagB == <<"b">>
TagUpper == <<"B">>

\* the repository's operations, one caller: tags, pins and times
SeqIn ==
  [ titles     |-> { <<" ", "a", " ">> },
    contents   |-> { <<"a">> },
    taglists   |-> { <<>>, <<TagA>>, <<TagA, TagUpper>>, <<TagB, TagB>> },
    ids        |-> 1..(MaxNotes + 1),
    tagfilters |-> { None, <<>>, <<"A">> },
    limits     |-> { 0, 1, MaxNotes } ]

SeqProcs == {"c1"}

Init ==
  /\ InitStore
  /\ raw = <<>>
  /\ parsed = NotParsed

Next ==
  \/ \E p \in SeqProcs :
       \/ DoCreate(p, SeqIn)
       \/ DoUpdate(p, SeqIn)
       \/ DoDelete(p, SeqIn)
       \/ DoTogglePin(p, SeqIn)
       \/ DoGet(p, SeqIn)
       \/ DoList(p, SeqIn)
       \/ DoExport(p, SeqIn)
       \/ DoListTags(p, SeqIn)
       \/ DoInitDb(p)
       \/ Return(p)
  \/ Tick

Spec == Init /\ [][Next]_vars

----------------------------------------------------------------------------
(* Callers side by side, each in its own scoped connection, statement by   *)
(* statement. Python's sqlite3 opens the transaction before the first      *)
(* INSERT, UPDATE or DELETE of a connection; a SELECT outside one reads    *)
(* the committed database as it is when the SELECT runs.                   *)

\* what a statement of p reads: its own transaction's image, or the commits
View(p) == IF wlock = p THEN work ELSE db

\* p enters `with connect(...)` and calls the operation c; a reading call
\* starts to note the committed values of the notes while it runs
Start(p, c, first) ==
  /\ pc[p] = "idle"
  /\ pc' = [pc EXCEPT ![p] = first]
  /\ call' = [call EXCEPT ![p] = c]
  /\ hist' = [hist EXCEPT ![p] =
                IF c.op \in ReadOps THEN NoteValues(db) ELSE {}]
  /\ UNCHANGED <<db, work, wlock, clock, loc, result, pre, raw, parsed>>

\* create_note(conn, title, content, tags): now = _now_iso()
CallCreate(p, In) ==
  \E title \in In.titles, content \in In.contents, tags \in In.taglists :
    /\ MayCreate
    /\ Start(p, [NoCall EXCEPT !.op = "create", !.title = title,
                               !.content = content, !.tags = tags,
                               !.now = clock],
             "insert_note")

\* update_note(conn, note_id, title, content, tags): now = _now_iso()
CallUpdate(p, In) ==
  \E id \in In.ids, title \in In.titles, content \in In.contents,
     tags \in In.taglists :
    Start(p, [NoCall EXCEPT !.op = "update", !.id = id, !.title = title,
                            !.content = content, !.tags = tags, !.now = clock],
          "update_note")

\* delete_note(conn, note_id)
CallDelete(p, In) ==
  \E id \in In.ids :
    Start(p, [NoCall EXCEPT !.op = "delete", !.id = id], "delete_note")

\* get_note(conn, note_id)
CallGet(p, In) ==
  \E id \in In.ids :
    Start(p, [NoCall EXCEPT !.op = "get", !.id = id], "select_note")

\* list_notes(conn, tag, limit)
CallList(p, In) ==
  \E tag \in In.tagfilters, limit \in In.limits :
    Start(p, [NoCall EXCEPT !.op = "list", !.tag = tag, !.limit = limit],
          "select_list")

Go(p, next, l) ==
  /\ pc' = [pc EXCEPT ![p] = next]
  /\ loc' = [loc EXCEPT ![p] = l]

\* a statement that writes: it takes the write lock, or already holds it
Write(p, S, next, l) ==
  /\ wlock \in {NoProc, p}
  /\ wlock' = p
  /\ work' = S
  /\ Go(p, next, l)
  /\ UNCHANGED <<db, clock, call, result, hist, pre, raw, parsed>>

\* a statement that reads
Read(p, next, l) ==
  /\ Go(p, next, l)
  /\ UNCHANGED <<db, work, wlock, clock, call, result, hist, pre, raw, parsed>>

\* create_note: INSERT INTO notes
ExecInsertNote(p) ==
  /\ pc[p] = "insert_note"
  /\ Write(p, InsertNote(View(p), call[p].title, call[p].content, call[p].now),
           "delete_note_tags",
           [loc[p] EXCEPT !.nid = View(p).seq_notes + 1,
                          !.out = <<View(p).seq_notes + 1>>])

\* update_note: UPDATE notes
ExecUpdateNote(p) ==
  /\ pc[p] = "update_note"
  /\ Write(p, UpdateNote(View(p), call[p].id, call[p].title, call[p].content,
                         call[p].now),
           "delete_note_tags", [loc[p] EXCEPT !.nid = call[p].id, !.out = <<>>])

\* _set_note_tags: DELETE FROM note_tags, and the loop is entered
ExecDeleteNoteTags(p) ==
  /\ pc[p] = "delete_note_tags"
  /\ Write(p, DeleteNoteTags(View(p), loc[p].nid),
           IF call[p].tags = <<>> THEN "commit" ELSE "set_tag",
           [loc[p] EXCEPT !.todo = call[p].tags])

\* _set_note_tags: one turn of the loop
ExecSetTag(p) ==
  /\ pc[p] = "set_tag"
  /\ LET r == set_tag_turn(View(p), loc[p].nid, Head(loc[p].todo))
     IN  IF r.err = "none"
           THEN Write(p, r.db,
                      IF Tail(loc[p].todo) = <<>> THEN "commit" ELSE "set_tag",
                      [loc[p] EXCEPT !.todo = Tail(@)])
           ELSE Write(p, r.db, "except", [loc[p] EXCEPT !.err = r.err])

\* delete_note: DELETE FROM notes
ExecDeleteNote(p) ==
  /\ pc[p] = "delete_note"
  /\ Write(p, DeleteNote(View(p), call[p].id), "commit", loc[p])

\* SQLITE_BUSY: another connection holds the write lock when p's first
\* writing statement runs out of its busy timeout: "database is locked"
Busy(p) ==
  /\ pc[p] \in {"insert_note", "update_note", "delete_note"}
  /\ wlock \notin {NoProc, p}
  /\ Read(p, "except", [loc[p] EXCEPT !.err = "OperationalError"])

\* get_note: SELECT ... FROM notes WHERE id = ?, fetchone
ExecSelectNote(p) ==
  /\ pc[p] = "select_note"
  /\ IF call[p].id \in DOMAIN View(p).notes
       THEN Read(p, "select_tags",
                 [loc[p] EXCEPT !.rows = <<NoteRow(View(p), call[p].id)>>])
       ELSE Read(p, "commit", [loc[p] EXCEPT !.out = <<>>])

\* list_notes: the SELECT, fetchall
ExecSelectList(p) ==
  /\ pc[p] = "select_list"
  /\ \E rows \in list_notes_rows(View(p), call[p].tag, call[p].limit) :
       Read(p, IF rows = <<>> THEN "commit" ELSE "select_tags",
            [loc[p] EXCEPT !.rows = rows])

\* _get_tags_for_note for the next fetched row: a SELECT of its own
ExecSelectTags(p) ==
  /\ pc[p] = "select_tags"
  /\ LET row == Head(loc[p].rows)
     IN  Read(p, IF Tail(loc[p].rows) = <<>> THEN "commit" ELSE "select_tags",
              [loc[p] EXCEPT
                 !.rows = Tail(@),
                 !.out = Append(@, ItemOf(call[p].op, row,
                                          get_tags_for_note(View(p), row.id)))])

\* connect: the body ended, conn.commit(), conn.close(); the call returns.
\* Every reading call under way notes the newly committed values.
Commit(p) ==
  /\ pc[p] = "commit"
  /\ db' = IF wlock = p THEN ConnectCommit(db, work) ELSE db
  /\ work' = IF wlock = p THEN db' ELSE work
  /\ wlock' = IF wlock = p THEN NoProc ELSE wlock
  /\ pc' = [pc EXCEPT ![p] = "done"]
  /\ result' = [result EXCEPT ![p] = [kind |-> "ok", value |-> loc[p].out]]
  /\ hist' = [q \in Procs |->
                IF q # p /\ pc[q] \notin {"idle", "done"} /\ call[q].op \in ReadOps
                  THEN hist[q] \cup NoteValues(db')
                  ELSE hist[q]]
  /\ UNCHANGED <<clock, call, loc, pre, raw, parsed>>

\* connect: the body raised: conn.rollback(), raise, conn.close()
Rollback(p) ==
  /\ pc[p] = "except"
  /\ db' = IF wlock = p THEN ConnectRollback(db, work) ELSE db
  /\ work' = IF wlock = p THEN db' ELSE work
  /\ wlock' = IF wlock = p THEN NoProc ELSE wlock
  /\ pc' = [pc EXCEPT ![p] = "done"]
  /\ result' = [result EXCEPT ![p] = [kind |-> loc[p].err, value |-> <<>>]]
  /\ hist' = [q \in Procs |->
                IF q # p /\ pc[q] \notin {"idle", "done"} /\ call[q].op \in ReadOps
                  THEN hist[q] \cup NoteValues(db')
                  ELSE hist[q]]
  /\ UNCHANGED <<clock, call, loc, pre, raw, parsed>>

\* two callers: short texts, one tag given twice; the clock stands still
ConcIn ==
  [ titles     |-> { <<"a">> },
    contents   |-> { <<"a">> },
    taglists   |-> { <<>>, <<TagA, TagA>> },
    ids        |-> 1..MaxNotes,
    tagfilters |-> { None },
    limits     |-> { MaxNotes } ]

NextConc ==
  \/ \E p \in Procs :
       \/ CallCreate(p, ConcIn)
       \/ CallUpdate(p, ConcIn)
       \/ CallDelete(p, ConcIn)
       \/ CallGet(p, ConcIn)
       \/ CallList(p, ConcIn)
       \/ ExecInsertNote(p)
       \/ ExecUpdateNote(p)
       \/ ExecDeleteNoteTags(p)
       \/ ExecSetTag(p)
       \/ ExecDeleteNote(p)
       \/ Busy(p)
       \/ ExecSelectNote(p)
       \/ ExecSelectList(p)
       \/ ExecSelectTags(p)
       \/ Commit(p)
       \/ Rollback(p)
       \/ Return(p)

SpecConc == Init /\ [][NextConc]_vars

----------------------------------------------------------------------------
(* One caller, texts and queries: the search index and search_notes.       *)
(* The queries are made of letters, blanks and full stops; fts5's quotes,  *)
(* `*` and `:` are not among them.                                         *)

TextIn ==
  [ titles     |-> { <<" ">>, <<"b">> },
    contents   |-> { <<"a", " ", "b">>, <<"A", ".", "c", "d">> },
    taglists   |-> { <<>> },
    ids        |-> 1..(MaxNotes + 1),
    queries    |-> { <<" ", "U+3000">>, <<"a">>, <<"B", "U+3000", "a">>,
                     <<"c">>, <<"O", "R">>, <<"a", ".", "c">>,
                     <<"u", "n", "t", "i", "t", "l", "e", "d">> },
    limits     |-> { 1, MaxNotes } ]

NextText ==
  \E p \in SeqProcs :
    \/ DoCreate(p, TextIn)
    \/ DoUpdate(p, TextIn)
    \/ DoDelete(p, TextIn)
    \/ DoTogglePin(p, TextIn)
    \/ DoSearch(p, TextIn)
    \/ Return(p)

SpecText == Init /\ [][NextText]_vars

----------------------------------------------------------------------------
(* One caller, the HTTP actions of web.py, where the tags arrive as a raw  *)
(* string, next to create_note called directly with a list of its own     *)

WebIn ==
  [ titles   |-> { <<>>, <<" ", "A", " ">> },
    contents |-> { <<>>, <<" ", "a">> },
    rawtags  |-> { <<>>, <<"a", ",", " ", "A", " ", ",">>,
                   <<"B", "U+FF0C", " ", "b", ",">> \o Run("X", MaxTagLen + 1) },
    ids      |-> 1..(MaxNotes + 1) ]

DirectIn ==
  [ titles   |-> { <<"a">> },
    contents |-> { <<"a">> },
    taglists |-> { <<TagUpper>> } ]

NextWeb ==
  \E p \in SeqProcs :
    \/ DoCreateAction(p, WebIn)
    \/ DoUpdateAction(p, WebIn)
    \/ DoCreate(p, DirectIn)
    \/ DoDelete(p, WebIn)
    \/ Return(p)

SpecWeb == Init /\ [][NextWeb]_vars

----------------------------------------------------------------------------
(* Specification of parse_tags alone: every input, the function applied *)

InitTags ==
  /\ InitStore
  /\ raw \in RawInputs
  /\ parsed = NotParsed

ApplyParseTags ==
  /\ ~parsed.done
  /\ parsed' = [done |-> TRUE, out |-> parse_tags(raw)]
  /\ UNCHANGED <<raw, storeVars>>

\* ",".join(tags)
RECURSIVE Join(_, _)
Join(tags, sep) ==
  IF tags = <<>> THEN <<>>
  ELSE IF Len(tags) = 1 THEN tags[1]
  ELSE tags[1] \o <<sep>> \o Join(Tail(tags), sep)

\* web.py update_note_action re-saving a note: the form comes back with the
\* tags the note shows, joined by commas, and parse_tags is applied to that
ApplyParseTagsAgain ==
  /\ parsed.done
  /\ raw # Join(parsed.out, ",")
  /\ raw' = Join(parsed.out, ",")
  /\ parsed' = [done |-> TRUE, out |-> parse_tags(raw')]
  /\ UNCHANGED storeVars

NextTags == ApplyParseTags \/ ApplyParseTagsAgain

SpecTags == InitTags /\ [][NextTags]_vars

----------------------------------------------------------------------------
(* C10 *)

Commas == {",", "U+FF0C"}

\* the k-th smallest element of a set of integers
KthOf(S, k) == CHOOSE i \in S : Cardinality({j \in S : j < i}) = k - 1

\* the k-th token of r when r is split at every ASCII or full-width comma
TokenOf(r, k) ==
  LET seps  == {i \in 1..Len(r) : r[i] \in Commas}
      first == IF k = 1 THEN 1 ELSE KthOf(seps, k - 1) + 1
      last  == IF k = Cardinality(seps) + 1 THEN Len(r) ELSE KthOf(seps, k) - 1
  IN  SubSeq(r, first, last)

\* trimmed, lowercased, truncated
NormToken(r, k) == Prefix(LowerStr(Strip(TokenOf(r, k))), MaxTagLen)

\* the tokens kept: not empty, and no earlier token has the same result
KeptTokens(r) ==
  LET n == Cardinality({i \in 1..Len(r) : r[i] \in Commas}) + 1
  IN  {k \in 1..n : /\ NormToken(r, k) # <<>>
                    /\ \A j \in 1..(k - 1) : NormToken(r, j) # NormToken(r, k)}

NormalizedTags(r) ==
  [n \in 1..Cardinality(KeptTokens(r)) |-> NormToken(r, KthOf(KeptTokens(r), n))]

IsLowercase(s) == \A i \in 1..Len(s) : Lower(s[i]) = s[i]

NoDuplicates(s) == \A i, j \in 1..Len(s) : s[i] = s[j] => i = j

\* C10: for every input string, parse_tags returns the tokens between ASCII or
\* full-width commas, each trimmed, lowercased and truncated to 32
\* characters, without the empty ones, each result kept at its first
\* occurrence only: no duplicates, no empty entry, every entry lowercase and
\* at most 32 characters long, in first-seen order.
C10_ParseTagsNormalizes ==
  parsed.done =>
    /\ parsed.out = NormalizedTags(raw)
    /\ NoDuplicates(parsed.out)
    /\ \A i \in 1..Len(parsed.out) :
         /\ parsed.out[i] # <<>>
         /\ Len(parsed.out[i]) <= MaxTagLen
         /\ IsLowercase(parsed.out[i])

\* two tokens separated by a full-width comma, the first longer than 32
\* characters, both truncated to the same 32 characters and kept once
C10_Witness ==
  /\ parsed.done
  /\ "U+FF0C" \in Range(raw)
  /\ Len(raw) > 2 * MaxTagLen
  /\ Len(parsed.out) = 1
  /\ Len(parsed.out[1]) = MaxTagLen

----------------------------------------------------------------------------
(* C1 *)

\* C1: in every state reached by committed create, update, delete and
\* toggle_pin calls, the search index holds exactly one entry per stored
\* note, with the note's id and its current title and content, and no other
\* entry.
C1_IndexMirrorsNotes ==
  /\ DOMAIN db.fts = {FtsEntry(id, db.notes[id]) : id \in DOMAIN db.notes}
  /\ \A e \in DOMAIN db.fts : db.fts[e] = 1

\* an update has just replaced the content of a pinned note, and an earlier
\* note is deleted
C1_Witness ==
  \E p \in Procs :
    /\ pc[p] = "done"
    /\ call[p].op = "update"
    /\ call[p].id \in DOMAIN pre[p].notes
    /\ pre[p].notes[call[p].id].content # db.notes[call[p].id].content
    /\ pre[p].notes[call[p].id].title # db.notes[call[p].id].title
    /\ db.notes[call[p].id].pinned
    /\ Cardinality(DOMAIN db.notes) < db.seq_notes

----------------------------------------------------------------------------
(* C2 *)

\* C2: update_note with an id that does not exist is a silent no-op for
\* every title, content and tags: it raises nothing and leaves notes, tags,
\* associations and index as they were.
C2_UpdateMissingIsSilentNoOp ==
  \A p \in Procs :
    ( /\ pc[p] = "done"
      /\ call[p].op = "update"
      /\ call[p].id \notin DOMAIN pre[p].notes )
    => /\ result[p].kind = "ok"
       /\ db = pre[p]

----------------------------------------------------------------------------
(* C3 *)

\* C3: with readers and writers side by side, what get_note returns, and
\* every entry list_notes returns, is the committed value of that note at
\* one moment of the call: row and tags of the same committed state.
C3_ReadsAreSnapshots ==
  \A p \in Procs :
    (pc[p] = "done" /\ result[p].kind = "ok") =>
      /\ call[p].op = "get" =>
           \A i \in 1..Len(result[p].value) : result[p].value[i] \in hist[p]
      /\ call[p].op = "list" =>
           \A i \in 1..Len(result[p].value) :
             \E d \in hist[p] :
               result[p].value[i] = SummaryDict(d, d.tags, ListExcerptLen)

----------------------------------------------------------------------------
(* C4 *)

\* C4: when a statement of an operation fails inside connect, the error
\* reaches the caller and the committed notes, tags, associations and index
\* are what they were before the operation: nothing the failed operation
\* wrote survives, not even a tag row it created before failing.
C4_FailureRollsBack ==
  \A p \in Procs :
    pc[p] = "done" =>
      /\ result[p].kind # "ok" => db = pre[p]
      /\ ( /\ call[p].op = "update"
           /\ call[p].id \notin DOMAIN pre[p].notes
           /\ call[p].tags # <<>> )
         => result[p].kind = "IntegrityError"

\* an operation failed after _ensure_tag had inserted a tag row that no
\* committed state had
C4_Witness ==
  \E p \in Procs :
    /\ pc[p] = "done"
    /\ result[p].kind = "IntegrityError"
    /\ DOMAIN pre[p].notes # {}
    /\ call[p].tags[1] \notin {pre[p].tags[t] : t \in DOMAIN pre[p].tags}

----------------------------------------------------------------------------
(* C5 *)

\* a word of the note's title or content, whatever its case
NoteHasWord(row, token) ==
  LowerStr(token) \in Tokens(row.title) \cup Tokens(row.content)

\* C5: for every non-blank query, search_notes returns exactly the stored
\* notes whose title or content contains every token of the query (all of
\* them when they are at most limit, limit of them otherwise).
C5_SearchReturnsMatches ==
  \A p \in Procs :
    ( /\ pc[p] = "done"
      /\ call[p].op = "search"
      /\ Strip(call[p].query) # <<>> )
    => LET tokens == QueryTokens(Strip(call[p].query))
           want   == {id \in DOMAIN db.notes :
                        \A i \in 1..Len(tokens) :
                          NoteHasWord(db.notes[id], tokens[i])}
           got    == {result[p].value[i].id : i \in 1..Len(result[p].value)}
       IN  /\ result[p].kind = "ok"
           /\ got \subseteq want
           /\ Len(result[p].value) = Min(call[p].limit, Cardinality(want))
           /\ Cardinality(got) = Len(result[p].value)

----------------------------------------------------------------------------
(* C6 *)

\* C6: create_note with the tags parse_tags gives, followed by get_note of
\* the id returned: the title is the trimmed title, or "Untitled" when that
\* is blank, the content is the content given, the tag set is the set of the
\* normalized tags; export_all has the note with that title.
C6_CreateGetRoundTrip ==
  \A p \in Procs :
    (pc[p] = "done" /\ call[p].op = "create" /\ call[p].web) =>
      /\ result[p].kind = "ok"
      /\ LET g == get_note(db, result[p].value[1])
         IN  /\ g # <<>>
             /\ g[1].title = IF Strip(call[p].title) = <<>> THEN Untitled
                             ELSE Strip(call[p].title)
             /\ g[1].content = call[p].content
             /\ Range(g[1].tags) = Range(call[p].tags)
             /\ Len(g[1].tags) = Cardinality(Range(call[p].tags))
             /\ \A ex \in export_all(db) :
                  \E i \in 1..Len(ex) :
                    ex[i].id = result[p].value[1] /\ ex[i].title = g[1].title

\* a second note created with a blank title, a content that starts with a
\* blank and a raw tag string that gives two tags
C6_Witness ==
  \E p \in Procs :
    /\ pc[p] = "done"
    /\ call[p].op = "create"
    /\ call[p].web
    /\ Strip(call[p].title) = <<>>
    /\ call[p].content = <<" ", "a">>
    /\ Len(call[p].tags) = 2
    /\ result[p].value = <<2>>

----------------------------------------------------------------------------
(* C7 *)

\* C7: after update_note on an existing note the note's tags are exactly the
\* names in tags: what was associated and is not listed is dissociated,
\* every listed name is associated and has a tag row, an empty list leaves
\* no tag.
C7_UpdateReplacesTagSet ==
  \A p \in Procs :
    ( /\ pc[p] = "done"
      /\ call[p].op = "update"
      /\ call[p].id \in DOMAIN pre[p].notes )
    => /\ result[p].kind = "ok"
       /\ Range(get_tags_for_note(db, call[p].id)) = Range(call[p].tags)
       /\ \A name \in Range(call[p].tags) :
            \E t \in DOMAIN db.tags :
              db.tags[t] = name /\ <<call[p].id, t>> \in DOMAIN db.note_tags
       /\ \A t \in DOMAIN db.tags :
            db.tags[t] \notin Range(call[p].tags)
              => <<call[p].id, t>> \notin DOMAIN db.note_tags

\* an update took two tags off a note and gave it one that had no tag row
C7_Witness ==
  \E p \in Procs :
    /\ pc[p] = "done"
    /\ call[p].op = "update"
    /\ call[p].id \in DOMAIN pre[p].notes
    /\ Cardinality(Range(get_tags_for_note(pre[p], call[p].id))
                     \ Range(call[p].tags)) = 2
    /\ \E name \in Range(call[p].tags) :
         name \notin {pre[p].tags[t] : t \in DOMAIN pre[p].tags}

----------------------------------------------------------------------------
(* C8 *)

\* no two tag rows of S with one name, no association of S twice
NoDuplicateTags(S) ==
  /\ \A t, u \in DOMAIN S.tags : S.tags[t] = S.tags[u] => t = u
  /\ \A pr \in DOMAIN S.note_tags : S.note_tags[pr] = 1

\* C8: under every interleaving of create_note and update_note calls of two
\* callers, also when both bring the same new tag name, no two tag rows have
\* the same name and no note is associated with a tag more than once, in
\* the committed database and in the writer's transaction.
C8_NoDuplicateTags == NoDuplicateTags(db) /\ NoDuplicateTags(work)

\* one caller has inserted a tag row no committed state has and is about to
\* commit, the other is under way with the same new name
C8_Witness ==
  \E p, q \in Procs :
    /\ p # q
    /\ wlock = p
    /\ pc[p] = "commit"
    /\ TagA \in {work.tags[t] : t \in DOMAIN work.tags}
    /\ DOMAIN db.tags = {}
    /\ pc[q] \in {"insert_note", "update_note"}
    /\ TagA \in Range(call[q].tags)

----------------------------------------------------------------------------
(* C9 *)

\* every tag name stored in S is lowercase and has at most 32 characters
TagNamesNormalized(S) ==
  \A t \in DOMAIN S.tags :
    IsLowercase(S.tags[t]) /\ Len(S.tags[t]) <= MaxTagLen

----------------------------------------------------------------------------
(* C11 *)

\* every association row references a note and a tag that both exist
AssociationsReferToRows(S) ==
  \A pr \in DOMAIN S.note_tags :
    pr[1] \in DOMAIN S.notes /\ pr[2] \in DOMAIN S.tags

\* C11: after delete_note of an existing note, get_note reports its absence
\* and no tag association and no search-index entry for that id remains;
\* hence in every reachable state each association row references a note and
\* a tag that both exist.
C11_DeleteCascades ==
  /\ AssociationsReferToRows(db)
  /\ \A p \in Procs :
       ( /\ pc[p] = "done"
         /\ call[p].op = "delete"
         /\ call[p].id \in DOMAIN pre[p].notes )
       => /\ result[p].kind = "ok"
          /\ get_note(db, call[p].id) = <<>>
          /\ \A pr \in DOMAIN db.note_tags : pr[1] # call[p].id
          /\ \A e \in DOMAIN db.fts : e.rowid # call[p].id

\* a note that had two tags and an index entry has just been deleted, while
\* another note still has a tag
C11_Witness ==
  \E p \in Procs :
    /\ pc[p] = "done"
    /\ call[p].op = "delete"
    /\ call[p].id \in DOMAIN pre[p].notes
    /\ Cardinality({pr \in DOMAIN pre[p].note_tags : pr[1] = call[p].id}) = 2
    /\ \E e \in DOMAIN pre[p].fts : e.rowid = call[p].id
    /\ DOMAIN db.note_tags # {}

----------------------------------------------------------------------------
(* C12 *)

\* C12: delete_note and toggle_pin called with an id that no note has raise
\* no error and leave every note (its updated_at included), every tag, every
\* association and the search index unchanged.
C12_MissingIdIsNoOp ==
  \A p \in Procs :
    ( /\ pc[p] = "done"
      /\ call[p].op \in {"delete", "toggle_pin"}
      /\ call[p].id \notin DOMAIN pre[p].notes )
    => /\ result[p].kind = "ok"
       /\ db.notes = pre[p].notes
       /\ db.tags = pre[p].tags
       /\ db.note_tags = pre[p].note_tags
       /\ db.fts = pre[p].fts

\* toggle_pin of the id of a deleted note returned, later than the last
\* stamp of a stored note that has a tag
C12_Witness ==
  \E p \in Procs :
    /\ pc[p] = "done"
    /\ call[p].op = "toggle_pin"
    /\ call[p].id \notin DOMAIN pre[p].notes
    /\ call[p].id <= pre[p].seq_notes
    /\ \E id \in DOMAIN pre[p].notes :
         /\ pre[p].notes[id].updated_at < call[p].now
         /\ get_tags_for_note(pre[p], id) # <<>>

----------------------------------------------------------------------------
(* C13 *)

\* note a ranks strictly before note b: pinned before unpinned, then the
\* later updated_at first
RanksBefore(a, b) ==
  \/ a.pinned /\ ~b.pinned
  \/ a.pinned = b.pinned /\ a.updated_at > b.updated_at

\* C13: for every store state and every limit >= 0, list_notes(None, limit)
\* returns min(limit, number of notes) distinct stored notes from the front of
\* the order 'pinned before unpinned, then updated_at descending': every pinned
\* note in the result precedes every unpinned one, updated_at never increases
\* among notes of equal pinned status, and no omitted note ranks strictly
\* before a returned one.
C13_ListIsFrontOfOrder ==
  \A p \in Procs :
    ( /\ pc[p] = "done"
      /\ call[p].op = "list"
      /\ call[p].tag = None
      /\ call[p].limit >= 0 )
    => LET v == result[p].value
           returned == {v[i].id : i \in 1..Len(v)}
       IN  /\ result[p].kind = "ok"
           /\ Len(v) = Min(call[p].limit, Cardinality(DOMAIN db.notes))
           /\ \A i, j \in 1..Len(v) : i # j => v[i].id # v[j].id
           /\ \A i \in 1..Len(v) :
                /\ v[i].id \in DOMAIN db.notes
                /\ v[i].pinned = db.notes[v[i].id].pinned
                /\ v[i].updated_at = db.notes[v[i].id].updated_at
           /\ \A i, j \in 1..Len(v) :
                i < j => /\ ~(v[j].pinned /\ ~v[i].pinned)
                         /\ v[i].pinned = v[j].pinned
                              => v[i].updated_at >= v[j].updated_at
           /\ \A id \in DOMAIN db.notes \ returned :
                \A i \in 1..Len(v) : ~RanksBefore(db.notes[id], v[i])

\* list_notes(None, 1) returned the pinned note and left out an unpinned one
\* that was updated later
C13_Witness ==
  \E p \in Procs :
    /\ pc[p] = "done"
    /\ call[p].op = "list"
    /\ call[p].tag = None
    /\ call[p].limit = 1
    /\ Len(result[p].value) = 1
    /\ result[p].value[1].pinned
    /\ \E id \in DOMAIN db.notes :
         /\ ~db.notes[id].pinned
         /\ db.notes[id].updated_at > result[p].value[1].updated_at

----------------------------------------------------------------------------
(* C14 *)

\* the notes of S whose tag set contains name
NotesTagged(S, name) ==
  {id \in DOMAIN S.notes : name \in Range(get_tags_for_note(S, id))}

\* C14: for every tag_filter value other than None, list_notes(tag_filter,
\* limit) returns only notes whose current tag set contains the lowercased
\* tag_filter, each such note at most once, and all of them when there are at
\* most limit; a note whose association with that tag was removed by a later
\* update is no longer returned.
C14_FilterReturnsTaggedNotes ==
  \A p \in Procs :
    ( /\ pc[p] = "done"
      /\ call[p].op = "list"
      /\ call[p].tag # None )
    => LET v == result[p].value
           tagged == NotesTagged(db, LowerStr(call[p].tag))
       IN  /\ result[p].kind = "ok"
           /\ \A i \in 1..Len(v) : v[i].id \in tagged
           /\ \A i, j \in 1..Len(v) : i # j => v[i].id # v[j].id
           /\ Cardinality(tagged) <= call[p].limit
                => tagged = {v[i].id : i \in 1..Len(v)}

----------------------------------------------------------------------------
(* C15 *)

\* the tag names stored in S
TagNames(S) == {S.tags[t] : t \in DOMAIN S.tags}

\* C15: list_tags returns one entry for every tag name ever committed by a
\* create or update (tags are never deleted, and no other name is stored),
\* each with a count equal to the number of notes currently associated with
\* it (0 for an orphaned tag), ordered by count descending and then by name
\* ascending.
C15_ListTagsCountsEveryTag ==
  \A p \in Procs :
    pc[p] = "done" =>
      \* what was committed stays, and only create and update commit names
      /\ \A t \in DOMAIN pre[p].tags :
           t \in DOMAIN db.tags /\ db.tags[t] = pre[p].tags[t]
      /\ \A t \in DOMAIN db.tags \ DOMAIN pre[p].tags :
           /\ call[p].op \in {"create", "update"}
           /\ db.tags[t] \in Range(call[p].tags)
      /\ (call[p].op \in {"create", "update"} /\ result[p].kind = "ok")
           => Range(call[p].tags) \subseteq TagNames(db)
      \* what list_tags returns
      /\ call[p].op = "list_tags" =>
           LET v == result[p].value
           IN  /\ result[p].kind = "ok"
               /\ {v[i].name : i \in 1..Len(v)} = TagNames(db)
               /\ \A i, j \in 1..Len(v) : i # j => v[i].name # v[j].name
               /\ \A i \in 1..Len(v) :
                    v[i].count = Cardinality(NotesTagged(db, v[i].name))
               /\ \A i, j \in 1..Len(v) :
                    i < j => \/ v[i].count > v[j].count
                             \/ /\ v[i].count = v[j].count
                                /\ StrLess(v[i].name, v[j].name)

\* list_tags returned a tag of two notes followed by two orphaned tags
C15_Witness ==
  \E p \in Procs :
    /\ pc[p] = "done"
    /\ call[p].op = "list_tags"
    /\ Len(result[p].value) = 3
    /\ result[p].value[1].count = 2
    /\ result[p].value[2].count = 0
    /\ result[p].value[3].count = 0

----------------------------------------------------------------------------
(* C16 *)

\* C16: in every state reachable by create_note, update_note and toggle_pin
\* calls (and the other operations), every stored note has
\* updated_at >= created_at. The clock read by _now_iso does not run
\* backwards here.
C16_UpdatedNotBeforeCreated ==
  \A id \in DOMAIN db.notes :
    db.notes[id].updated_at >= db.notes[id].created_at

\* one note was stamped by an update_note or toggle_pin later than its
\* creation, while another still has the two stamps of its creation
C16_Witness ==
  \E p \in Procs :
    /\ pc[p] = "done"
    /\ call[p].op \in {"update", "toggle_pin"}
    /\ call[p].id \in DOMAIN db.notes
    /\ db.notes[call[p].id].updated_at > db.notes[call[p].id].created_at
    /\ \E id \in DOMAIN db.notes :
         id # call[p].id /\ db.notes[id].updated_at = db.notes[id].created_at

----------------------------------------------------------------------------
(* C17 *)

\* C17: running init_db again on an initialised database raises no error,
\* creates no second copy of any table or trigger and leaves all stored data
\* unchanged.
C17_InitDbIsIdempotent ==
  \A p \in Procs :
    (pc[p] = "done" /\ call[p].op = "init_db")
    => /\ result[p].kind = "ok"
       /\ db = pre[p]
       /\ \A i, j \in 1..Len(db.schema) :
            i # j => db.schema[i].name # db.schema[j].name
       /\ {db.schema[i] : i \in 1..Len(db.schema)} = Range(SCHEMA_SQL)

\* init_db ran on a database that holds a note with a tag, an orphaned tag
\* and the counters of a deleted note
C17_Witness ==
  \E p \in Procs :
    /\ pc[p] = "done"
    /\ call[p].op = "init_db"
    /\ \E pr \in DOMAIN pre[p].note_tags : TRUE
    /\ \E t \in DOMAIN pre[p].tags : TagCount(pre[p], t) = 0
    /\ pre[p].seq_notes > Cardinality(DOMAIN pre[p].notes)
    /\ DOMAIN pre[p].fts # {}

----------------------------------------------------------------------------
(* C18 *)

\* C18: toggle_pin on an existing note inverts its pinned flag and sets its
\* updated_at to the time of the call, leaving its title, content, created_at,
\* tag set and the search index unchanged; a second toggle_pin restores the
\* original pinned value.
C18_TogglePinInvertsPinned ==
  \A p \in Procs :
    ( /\ pc[p] = "done"
      /\ call[p].op = "toggle_pin"
      /\ call[p].id \in DOMAIN pre[p].notes )
    => LET id  == call[p].id
           old == pre[p].notes[id]
       IN  /\ result[p].kind = "ok"
           /\ id \in DOMAIN db.notes
           /\ db.notes[id].pinned = ~old.pinned
           /\ db.notes[id].updated_at = call[p].now
           /\ db.notes[id].title = old.title
           /\ db.notes[id].content = old.content
           /\ db.notes[id].created_at = old.created_at
           /\ get_tags_for_note(db, id) = get_tags_for_note(pre[p], id)
           /\ db.fts = pre[p].fts
           /\ toggle_pin(db, id, clock).db.notes[id].pinned = old.pinned

\* toggle_pin unpinned a pinned note that has two tags, later than the
\* note's last stamp
C18_Witness ==
  \E p \in Procs :
    /\ pc[p] = "done"
    /\ call[p].op = "toggle_pin"
    /\ call[p].id \in DOMAIN pre[p].notes
    /\ pre[p].notes[call[p].id].pinned
    /\ ~db.notes[call[p].id].pinned
    /\ pre[p].notes[call[p].id].updated_at < call[p].now
    /\ Len(get_tags_for_note(db, call[p].id)) = 2

----------------------------------------------------------------------------
(* C19 *)

\* C19: create_note stamps created_at and updated_at with the same value; no
\* later update_note or toggle_pin (nor any other call) changes the created_at
\* of a stored note; each update_note and toggle_pin of an existing note sets
\* its updated_at to the time of that call.
C19_TimestampsFollowCalls ==
  \A p \in Procs :
    pc[p] = "done" =>
      /\ \A id \in DOMAIN pre[p].notes \cap DOMAIN db.notes :
           db.notes[id].created_at = pre[p].notes[id].created_at
      /\ (call[p].op = "create" /\ result[p].kind = "ok") =>
           /\ result[p].value[1] \in DOMAIN db.notes \ DOMAIN pre[p].notes
           /\ db.notes[result[p].value[1]].created_at = call[p].now
           /\ db.notes[result[p].value[1]].updated_at = call[p].now
      /\ ( /\ call[p].op \in {"update", "toggle_pin"}
           /\ call[p].id \in DOMAIN pre[p].notes ) =>
           /\ result[p].kind = "ok"
           /\ db.notes[call[p].id].updated_at = call[p].now

\* an update_note or toggle_pin of a note created earlier returned: its
\* created_at is older than the call
C19_Witness ==
  \E p \in Procs :
    /\ pc[p] = "done"
    /\ call[p].op \in {"update", "toggle_pin"}
    /\ call[p].id \in DOMAIN pre[p].notes
    /\ pre[p].notes[call[p].id].created_at < call[p].now
    /\ pre[p].notes[call[p].id].updated_at < call[p].now

----------------------------------------------------------------------------
(* C20 *)

\* the association rows of note id in S, with their tag names and copies
AssociationsOf(S, id) ==
  { <<pr[2], S.tags[pr[2]], S.note_tags[pr]>> :
      pr \in {q \in DOMAIN S.note_tags : q[1] = id /\ q[2] \in DOMAIN S.tags} }

\* the index entries of note id in S, with their copies
IndexEntriesOf(S, id) ==
  { <<e, S.fts[e]>> : e \in {x \in DOMAIN S.fts : x.rowid = id} }

\* C20: update_note, delete_note and toggle_pin applied to one note leave
\* every other note untouched: its title, content, pinned flag, timestamps,
\* tag associations and index entries are unchanged, even when the notes
\* share tags.
C20_OtherNotesUntouched ==
  \A p \in Procs :
    ( /\ pc[p] = "done"
      /\ call[p].op \in {"update", "delete", "toggle_pin"} )
    => /\ DOMAIN db.notes \subseteq DOMAIN pre[p].notes
       /\ \A id \in DOMAIN pre[p].notes \ {call[p].id} :
            /\ id \in DOMAIN db.notes
            /\ db.notes[id] = pre[p].notes[id]
            /\ AssociationsOf(db, id) = AssociationsOf(pre[p], id)
            /\ get_tags_for_note(db, id) = get_tags_for_note(pre[p], id)
            /\ IndexEntriesOf(db, id) = IndexEntriesOf(pre[p], id)

\* update_note or delete_note took from one note a tag that another note has
\* as well
C20_Witness ==
  \E p \in Procs :
    /\ pc[p] = "done"
    /\ call[p].op \in {"update", "delete"}
    /\ result[p].kind = "ok"
    /\ call[p].id \in DOMAIN pre[p].notes
    /\ \E id \in DOMAIN pre[p].notes \ {call[p].id} :
         \E name \in Range(get_tags_for_note(pre[p], id)) :
           /\ name \in Range(get_tags_for_note(pre[p], call[p].id))
           /\ name \notin Range(get_tags_for_note(db, call[p].id))

----------------------------------------------------------------------------
(* C21 *)

\* C21: note ids are never reused. Every id handed out so far is at most the
\* AUTOINCREMENT counter, the counter never goes back, and a committed
\* create_note returns an id above the counter it found: an id different from
\* that of every earlier committed create, those of deleted notes included,
\* and the note stored under an id is the one that create put there.
C21_NoteIdsNeverReused ==
  /\ \A id \in DOMAIN db.notes : id <= db.seq_notes
  /\ \A p \in Procs :
       pc[p] = "done" =>
         /\ db.seq_notes >= pre[p].seq_notes
         /\ \A id \in DOMAIN pre[p].notes \cap DOMAIN db.notes :
              db.notes[id].created_at = pre[p].notes[id].created_at
         /\ call[p].op # "create" => DOMAIN db.notes \subseteq DOMAIN pre[p].notes
         /\ (call[p].op = "create" /\ result[p].kind = "ok") =>
              /\ result[p].value[1] > pre[p].seq_notes
              /\ result[p].value[1] \notin DOMAIN pre[p].notes
              /\ DOMAIN db.notes = DOMAIN pre[p].notes \cup {result[p].value[1]}

\* create_note returned an id while the note of the id before it, the
\* largest id handed out so far, had been deleted
C21_Witness ==
  \E p \in Procs :
    /\ pc[p] = "done"
    /\ call[p].op = "create"
    /\ result[p].kind = "ok"
    /\ pre[p].seq_notes >= 1
    /\ pre[p].seq_notes \notin DOMAIN pre[p].notes

----------------------------------------------------------------------------
(* C22 *)

\* no whitespace at either end
IsStripped(s) == Strip(s) = s

\* C22: tag normalization is idempotent: for every input string,
\* parse_tags(",".join(parse_tags(s))) = parse_tags(s), so that saving a note
\* again with the tags it shows does not change its tags; in particular every
\* entry parse_tags returns has no leading or trailing whitespace.
C22_ParseTagsIdempotent ==
  [][ (parsed.done /\ parsed'.done /\ raw' = Join(parsed.out, ","))
        => /\ parsed'.out = parsed.out
           /\ \A i \in 1..Len(parsed.out) : IsStripped(parsed.out[i]) ]_vars

============================================================================
